---- MODULE Spec2Model ----
(***************************************************************************)
(* Model of terminal.py, the command line front end of the INA219 logger:  *)
(* option parsing, header emission, the sampling loop, the atexit handler  *)
(* end(), and the bar plot helper plotter().                               *)
(*                                                                         *)
(* Floats are in hundredths (1.0 s = 100, 0.05 s = 5, 50 W = 5000).  Sinks *)
(* are sequences of line tags: "H" the metadata header block, "L" the      *)
(* column-label row, "D" a data row, "U" the usage hint, other tags the    *)
(* messages printed by the option loop.  Strings built by plotter are      *)
(* sequences of one-character strings.                                     *)
(***************************************************************************)
EXTENDS Integers, Sequences, FiniteSets, TLC

\* ---------------------------------------------------------------- bounds
MaxOpts == 3
MaxSkips == 2
MaxRows == 2
MaxVal == 10
MaxChars == 10

\* ------------------------------------------------- program constants
n_default == 4
dt_default == 100
min_dt == 5
graph_max_default == 5000
graph_size == 10
call_x_min == 100

\* ------------------------------------------------------------ inputs
\* the command line words the model draws option sequences from
Alphabet ==
    { <<"-h", "">>,
      <<"-n", "inf">>, <<"-n", "2">>, <<"-n", "0">>, <<"-n", "x">>,
      <<"-i", "0.01">>, <<"-i", "0.5">>, <<"-i", "abc">>,
      <<"-a", "0x40">>,
      <<"-g", "5">>,
      <<"-p", "/dev/ttyAMA0">>, <<"-b", "9600">>,
      <<"-t", "S">>,
      <<"-u", "kW">>, <<"-u", "zz">>,
      <<"-s", "dir">>,
      <<"-x", "">> }

KnownFlags == {"-h", "-n", "-i", "-u", "-s", "-a", "-p", "-b", "-t", "-g"}

OptSeqs == UNION { [1..k -> Alphabet] : k \in 0..MaxOpts }

\* power readings the sensor may return, in hundredths of a W
Powers == {0, 300, 900}

available_units == {"J", "Wh", "kW"}

\* ------------------------------------------------------- conversions
\* int(arg): the value, or ValueError
int(arg) ==
    CASE arg = "2" -> [ok |-> TRUE, v |-> 2]
      [] arg = "0" -> [ok |-> TRUE, v |-> 0]
      [] OTHER     -> [ok |-> FALSE, v |-> 0]

\* float(arg) in hundredths: the value, or ValueError
float(arg) ==
    CASE arg = "0.01" -> [ok |-> TRUE, v |-> 1]
      [] arg = "0.5"  -> [ok |-> TRUE, v |-> 50]
      [] arg = "5"    -> [ok |-> TRUE, v |-> 500]
      [] OTHER        -> [ok |-> FALSE, v |-> 0]

\* ------------------------------------------------------------ plotter
Abs(k) == IF k < 0 THEN -k ELSE k

\* Trunc with the quotient rounded to the nearest integer (half to even)
Trunc_round(num, den) ==
    LET q == Abs(num) \div Abs(den)
        r == Abs(num) % Abs(den)
        m == IF 2 * r > Abs(den) \/ (2 * r = Abs(den) /\ q % 2 = 1) THEN q + 1 ELSE q
    IN  IF (num < 0) # (den < 0) THEN -m ELSE m

\* int() of the float quotient num/den: truncation toward zero
Trunc(num, den) ==
    LET q == Abs(num) \div Abs(den)
    IN  IF (num < 0) # (den < 0) THEN -q ELSE q

\* c * k for a str c of one character and an int k
Rep(c, k) == IF k <= 0 THEN <<>> ELSE [j \in 1..k |-> c]

\* plotter(x, x_max, x_min, chars, plot_char); x_max_int tells whether the
\* x_max passed is an int (TRUE) or a float (FALSE): str * float raises.
plotter(x, x_max, x_min, chars, plot_char, x_max_int) ==
    IF x > x_max
    THEN IF x_max_int
         THEN [raise |-> "", str |-> Rep("#", x_max)]
         ELSE [raise |-> "TypeError", str |-> <<>>]
    ELSE IF x_max = x_min
         THEN [raise |-> "ZeroDivisionError", str |-> <<>>]
         ELSE LET a == Trunc((x - x_min) * chars, x_max - x_min)
              IN  [raise |-> "", str |-> Rep(plot_char, a) \o Rep(" ", chars - a)]

\* -------------------------------------------------------------- state
VARIABLES
    opts,          \* result of getopt: the (flag, argument) pairs
    idx,           \* position of the option loop in opts
    pc,            \* position of the script
    inf, n, dt,    \* -n / -i settings
    instanced,     \* an INA219 was made by -a
    sensors,       \* number of INA219 objects constructed
    units,         \* i.units
    f, f_save,     \* file handle (0 is None) and the save flag
    graph, graph_max,
    port_monitor, port_tx,
    serial_port,   \* serial handle (0 is False)
    handles,       \* every file / serial port opened, with its close count
    term,          \* lines printed to the terminal
    txWrites,      \* serial_port.write calls
    lineReads,     \* serial_port.readline calls
    skips,         \* undecodable lines skipped
    sensorReads,   \* i.get_energy_simple calls
    plot,          \* the last plotter call: arguments and result
    n_,            \* _n, the sample counter
    exc,           \* the uncaught exception that ended the script, or ""
    how,           \* how the script ended
    exitCode

nums == <<inf, n, dt>>
sens == <<instanced, sensors, units>>
save == <<f, f_save>>
gr == <<graph, graph_max>>
ser == <<port_monitor, port_tx, serial_port>>
cfg == <<nums, sens, save, gr, ser>>
cnt == <<txWrites, lineReads, skips, sensorReads>>
io == <<handles, term, cnt>>
run == <<exc, how, exitCode>>
vars == <<opts, idx, pc, cfg, io, plot, n_, run>>

NoPlot == [x |-> 0, x_max |-> 0, x_min |-> 0, chars |-> 0, x_max_int |-> TRUE,
           called |-> FALSE, raise |-> "", str |-> <<>>]

Defaults ==
    /\ idx = 0
    /\ pc = "getopt"
    /\ inf = FALSE /\ n = n_default /\ dt = dt_default
    /\ instanced = FALSE /\ sensors = 0 /\ units = "J"
    /\ f = 0 /\ f_save = FALSE
    /\ graph = FALSE /\ graph_max = graph_max_default
    /\ port_monitor = FALSE /\ port_tx = "" /\ serial_port = 0
    /\ handles = <<>> /\ term = <<>>
    /\ txWrites = 0 /\ lineReads = 0 /\ skips = 0 /\ sensorReads = 0
    /\ n_ = 0 /\ exc = "" /\ how = "" /\ exitCode = 0

Init ==
    /\ opts \in OptSeqs
    /\ plot = NoPlot
    /\ Defaults

\* ----------------------------------------------------- ways of ending
Close(hs, h) == IF h = 0 THEN hs ELSE [hs EXCEPT ![h].closed = @ + 1]

\* end(): f.close() unless f is None, serial_port.close() unless it is False
end == handles' = Close(Close(handles, f), serial_port)

\* the script stops here and the interpreter runs the atexit handler end()
Stop(h, e, code) ==
    /\ pc' = "exited"
    /\ how' = h
    /\ exc' = e
    /\ exitCode' = code
    /\ end

\* sys.exit() with no argument: SystemExit(None), exit status 0
sys_exit(h) == Stop(h, "", 0)

\* the script runs off its last line: exit status 0
finish(h) == Stop(h, "", 0)

\* an exception nothing catches: traceback, exit status 1
Uncaught(e) == Stop("error", e, 1)

Go(next) == pc' = next /\ UNCHANGED run

Step(next) == Go(next) /\ UNCHANGED handles

\* ------------------------------------------------------------ getopt
Getopt ==
    /\ pc = "getopt"
    /\ IF \E k \in 1..Len(opts) : opts[k][1] \notin KnownFlags
       THEN /\ term' = term \o <<"unknown argument passed", "U">>
            /\ sys_exit("usage")
            /\ UNCHANGED idx
       ELSE /\ idx' = 1
            /\ Step("opts")
            /\ UNCHANGED term
    /\ UNCHANGED <<opts, cfg, cnt, plot, n_>>

\* ------------------------------------------------------- option loop
AtOpt(flag) == pc = "opts" /\ idx <= Len(opts) /\ opts[idx][1] = flag
arg == opts[idx][2]
NextOpt == idx' = idx + 1 /\ Step("opts")

OptHelp ==
    /\ AtOpt("-h")
    /\ term' = Append(term, "help")
    /\ sys_exit("help")
    /\ UNCHANGED <<opts, idx, cfg, cnt, plot, n_>>

OptNumber ==
    /\ AtOpt("-n")
    /\ IF arg = "inf"
       THEN /\ inf' = TRUE
            /\ NextOpt
            /\ UNCHANGED <<n, term>>
       ELSE IF ~int(arg).ok
            THEN /\ term' = Append(term, "U")
                 /\ sys_exit("usage")
                 /\ UNCHANGED <<idx, inf, n>>
            ELSE /\ n' = int(arg).v
                 /\ inf' = IF int(arg).v < 1 THEN TRUE ELSE inf
                 /\ NextOpt
                 /\ UNCHANGED term
    /\ UNCHANGED <<opts, dt, sens, save, gr, ser, cnt, plot, n_>>

OptInterval ==
    /\ AtOpt("-i")
    /\ IF ~float(arg).ok
       THEN /\ term' = Append(term, "U")
            /\ sys_exit("usage")
            /\ UNCHANGED <<idx, dt>>
       ELSE IF float(arg).v < min_dt
            THEN /\ term' = term \o <<"interval too low", "U">>
                 /\ sys_exit("usage")
                 /\ UNCHANGED <<idx, dt>>
            ELSE /\ dt' = float(arg).v
                 /\ NextOpt
                 /\ UNCHANGED term
    /\ UNCHANGED <<opts, inf, n, sens, save, gr, ser, cnt, plot, n_>>

OptAddress ==
    /\ AtOpt("-a")
    /\ sensors' = sensors + 1
    /\ instanced' = TRUE
    /\ NextOpt
    /\ UNCHANGED <<opts, nums, units, save, gr, ser, term, cnt, plot, n_>>

OptGraph ==
    /\ AtOpt("-g")
    /\ graph' = TRUE
    /\ graph_max' = float(arg).v
    /\ NextOpt
    /\ UNCHANGED <<opts, nums, sens, save, ser, term, cnt, plot, n_>>

\* the handles serial.Serial() opens, one for every -b among the options
Bauds == { k \in 1..Len(opts) : opts[k][1] = "-b" }

OptPort ==
    /\ AtOpt("-p")
    /\ IF Bauds = {}
       THEN UNCHANGED <<handles, port_monitor, serial_port>>
       ELSE /\ handles' = handles \o
                  [j \in 1..Cardinality(Bauds) |-> [kind |-> "serial", closed |-> 0, out |-> <<>>]]
            /\ serial_port' = Len(handles) + Cardinality(Bauds)
            /\ port_monitor' = TRUE
    /\ idx' = idx + 1
    /\ Go("opts")
    /\ UNCHANGED <<opts, nums, sens, save, gr, port_tx, term, cnt, plot, n_>>

OptBaud ==
    /\ AtOpt("-b")
    /\ NextOpt
    /\ UNCHANGED <<opts, cfg, term, cnt, plot, n_>>

OptTx ==
    /\ AtOpt("-t")
    /\ port_tx' = arg
    /\ NextOpt
    /\ UNCHANGED <<opts, nums, sens, save, gr, port_monitor, serial_port, term, cnt, plot, n_>>

OptUnits ==
    /\ AtOpt("-u")
    /\ IF sensors = 0
       THEN /\ Uncaught("NameError")
            /\ UNCHANGED <<idx, units, term>>
       ELSE IF arg \in available_units
            THEN /\ units' = arg
                 /\ NextOpt
                 /\ UNCHANGED term
            ELSE /\ term' = term \o <<"Unknown unit passed", "U">>
                 /\ sys_exit("usage")
                 /\ UNCHANGED <<idx, units>>
    /\ UNCHANGED <<opts, nums, instanced, sensors, save, gr, ser, cnt, plot, n_>>

save_start ==
    /\ f_save' = TRUE
    /\ handles' = Append(handles, [kind |-> "file", closed |-> 0, out |-> <<>>])
    /\ f' = Len(handles) + 1

OptSave ==
    /\ AtOpt("-s")
    /\ save_start
    /\ idx' = idx + 1
    /\ Go("opts")
    /\ UNCHANGED <<opts, nums, sens, gr, ser, term, cnt, plot, n_>>

\* the option loop is exhausted: make the default sensor, build the headers
OptsDone ==
    /\ pc = "opts" /\ idx > Len(opts)
    /\ sensors' = IF instanced THEN sensors ELSE sensors + 1
    /\ Step("header_common")
    /\ UNCHANGED <<opts, idx, nums, instanced, units, save, gr, ser, term, cnt, plot, n_>>

PrintHeaderCommon ==
    /\ pc = "header_common"
    /\ term' = Append(term, "H")
    /\ Step("header_terminal")
    /\ UNCHANGED <<opts, idx, cfg, cnt, plot, n_>>

PrintHeaderTerminal ==
    /\ pc = "header_terminal"
    /\ term' = Append(term, "L")
    /\ Step("prime")
    /\ UNCHANGED <<opts, idx, cfg, cnt, plot, n_>>

\* ------------------------------------------------- initial measurement
\* i.get_energy_simple() before the loop; a failed bus read is not caught
Prime ==
    /\ pc = "prime"
    /\ \/ /\ sensorReads' = sensorReads + 1
          /\ Step("top")
       \/ /\ Uncaught("IOError")
          /\ UNCHANGED sensorReads
    /\ UNCHANGED <<opts, idx, cfg, term, txWrites, lineReads, skips, plot, n_>>

\* ------------------------------------------------------ sampling loop
LoopPcs == {"top", "tx", "readline", "sleep", "sense", "print",
            "fhdr", "flabel", "frow", "incr"}

\* LoopTop with the count test off by one (_n > n)
LoopTop_late ==
    /\ pc = "top"
    /\ IF ~inf /\ n_ > n
       THEN finish("count")
       ELSE /\ inf => n_ < MaxRows
            /\ Step(IF port_monitor
                  THEN IF port_tx # "" THEN "tx" ELSE "readline"
                  ELSE "sleep")
    /\ UNCHANGED <<opts, idx, cfg, term, cnt, plot, n_>>

\* while True: the count test, then the choice of pacing
LoopTop ==
    /\ pc = "top"
    /\ IF ~inf /\ n_ = n
       THEN finish("count")
       ELSE /\ inf => n_ < MaxRows
            /\ Step(IF port_monitor
                  THEN IF port_tx # "" THEN "tx" ELSE "readline"
                  ELSE "sleep")
    /\ UNCHANGED <<opts, idx, cfg, term, cnt, plot, n_>>

\* SerialWrite sending the command only until the first sample is out
SerialWrite_first ==
    /\ pc = "tx"
    /\ txWrites' = IF txWrites > n_ THEN txWrites ELSE txWrites + 1
    /\ Step("readline")
    /\ UNCHANGED <<opts, idx, cfg, term, lineReads, skips, sensorReads, plot, n_>>

SerialWrite ==
    /\ pc = "tx"
    /\ txWrites' = txWrites + 1
    /\ Step("readline")
    /\ UNCHANGED <<opts, idx, cfg, term, lineReads, skips, sensorReads, plot, n_>>

\* ReadLine with the decode error swallowed (pass) instead of continue
ReadLine_pass ==
    /\ pc = "readline"
    /\ lineReads' = lineReads + 1
    /\ \/ /\ Step("sense")
          /\ UNCHANGED skips
       \/ /\ skips < MaxSkips
          /\ skips' = skips + 1
          /\ Step("sense")
    /\ UNCHANGED <<opts, idx, cfg, term, txWrites, sensorReads, plot, n_>>

\* serial_port.readline().decode("utf-8"): a line, or UnicodeDecodeError
\* and continue
ReadLine ==
    /\ pc = "readline"
    /\ lineReads' = lineReads + 1
    /\ \/ /\ Step("sense")
          /\ UNCHANGED skips
       \/ /\ skips < MaxSkips
          /\ skips' = skips + 1
          /\ Step("top")
    /\ UNCHANGED <<opts, idx, cfg, term, txWrites, sensorReads, plot, n_>>

Sleep ==
    /\ pc = "sleep"
    /\ Step("sense")
    /\ UNCHANGED <<opts, idx, cfg, term, cnt, plot, n_>>

\* i.get_energy_simple() in the loop; a failed bus read is not caught
Sense ==
    /\ pc = "sense"
    /\ \/ /\ sensorReads' = sensorReads + 1
          /\ Step("print")
       \/ /\ Uncaught("IOError")
          /\ UNCHANGED sensorReads
    /\ UNCHANGED <<opts, idx, cfg, term, txWrites, lineReads, skips, plot, n_>>

\* the terminal row: format, append the bar for the power i.p just read
\* when asked, print
PrintRow ==
    /\ pc = "print"
    /\ IF graph
       THEN \E i_p \in Powers :
              LET r == plotter(i_p, graph_max, call_x_min, graph_size, "=", FALSE)
              IN  /\ plot' = [x |-> i_p, x_max |-> graph_max, x_min |-> call_x_min,
                               chars |-> graph_size, x_max_int |-> FALSE,
                               called |-> TRUE, raise |-> r.raise, str |-> r.str]
                  /\ IF r.raise # ""
                     THEN /\ Uncaught(r.raise)
                          /\ UNCHANGED term
                     ELSE /\ term' = Append(term, "D")
                          /\ Step(IF f_save THEN (IF n_ = 0 THEN "fhdr" ELSE "frow") ELSE "incr")
       ELSE /\ term' = Append(term, "D")
            /\ Step(IF f_save THEN (IF n_ = 0 THEN "fhdr" ELSE "frow") ELSE "incr")
            /\ UNCHANGED plot
    /\ UNCHANGED <<opts, idx, cfg, cnt, n_>>

f_write(line) == handles' = [handles EXCEPT ![f].out = Append(@, line)]

\* FileRow repeating the header block and label row before every row
FileRow_hdr ==
    /\ pc = "frow"
    /\ handles' = [handles EXCEPT ![f].out = @ \o <<"H", "L", "D">>]
    /\ Go("incr")
    /\ UNCHANGED <<opts, idx, cfg, term, cnt, plot, n_>>

FileHeader ==
    /\ pc = "fhdr"
    /\ f_write("H")
    /\ Go("flabel")
    /\ UNCHANGED <<opts, idx, cfg, term, cnt, plot, n_>>

FileLabel ==
    /\ pc = "flabel"
    /\ f_write("L")
    /\ Go("frow")
    /\ UNCHANGED <<opts, idx, cfg, term, cnt, plot, n_>>

FileRow ==
    /\ pc = "frow"
    /\ f_write("D")
    /\ Go("incr")
    /\ UNCHANGED <<opts, idx, cfg, term, cnt, plot, n_>>

Incr ==
    /\ pc = "incr"
    /\ n_' = n_ + 1
    /\ Step("top")
    /\ UNCHANGED <<opts, idx, cfg, term, cnt, plot>>

\* KeyboardInterrupt raised inside the try of the loop: except ... break
InterruptInLoop ==
    /\ pc \in LoopPcs
    /\ finish("interrupt")
    /\ UNCHANGED <<opts, idx, cfg, term, cnt, plot, n_>>

\* KeyboardInterrupt raised before the loop: nothing catches it
InterruptOutside ==
    /\ pc \in {"getopt", "opts", "header_common", "header_terminal", "prime"}
    /\ Uncaught("KeyboardInterrupt")
    /\ UNCHANGED <<opts, idx, cfg, term, cnt, plot, n_>>

Next ==
    \/ Getopt
    \/ OptHelp \/ OptNumber \/ OptInterval \/ OptAddress \/ OptGraph
    \/ OptPort \/ OptBaud \/ OptTx \/ OptUnits \/ OptSave \/ OptsDone
    \/ PrintHeaderCommon \/ PrintHeaderTerminal \/ Prime
    \/ LoopTop \/ SerialWrite \/ ReadLine \/ Sleep \/ Sense \/ PrintRow
    \/ FileHeader \/ FileLabel \/ FileRow \/ Incr
    \/ InterruptInLoop \/ InterruptOutside

Spec == Init /\ [][Next]_vars

\* --------------------------------------------------- plotter on its own
\* plotter applied to arguments drawn from bounded sets
PlotInputs ==
    [x : (0 - 2)..(MaxVal + 2), x_max : 0..MaxVal, x_min : 0..MaxVal,
     chars : 0..MaxChars, x_max_int : BOOLEAN,
     called : {FALSE}, raise : {""}, str : {<<>>}]

InitPlot ==
    /\ opts = <<>>
    /\ plot \in PlotInputs
    /\ idx = 0
    /\ pc = "plotter"
    /\ inf = FALSE /\ n = n_default /\ dt = dt_default
    /\ instanced = FALSE /\ sensors = 0 /\ units = "J"
    /\ f = 0 /\ f_save = FALSE
    /\ graph = FALSE /\ graph_max = graph_max_default
    /\ port_monitor = FALSE /\ port_tx = "" /\ serial_port = 0
    /\ handles = <<>> /\ term = <<>>
    /\ txWrites = 0 /\ lineReads = 0 /\ skips = 0 /\ sensorReads = 0
    /\ n_ = 0 /\ exc = "" /\ how = "" /\ exitCode = 0

PlotterCall ==
    /\ pc = "plotter"
    /\ ~plot.called
    /\ LET r == plotter(plot.x, plot.x_max, plot.x_min, plot.chars, "=", plot.x_max_int)
       IN  plot' = [plot EXCEPT !.called = TRUE, !.raise = r.raise, !.str = r.str]
    /\ UNCHANGED <<opts, idx, pc, cfg, io, n_, run>>

NextPlot == PlotterCall

SpecPlot == InitPlot /\ [][NextPlot]_vars

\* ------------------------------------------------------------ fairness
\* the steps the script takes by itself (an interrupt is the user's)
Program ==
    \/ Getopt
    \/ OptHelp \/ OptNumber \/ OptInterval \/ OptAddress \/ OptGraph
    \/ OptPort \/ OptBaud \/ OptTx \/ OptUnits \/ OptSave \/ OptsDone
    \/ PrintHeaderCommon \/ PrintHeaderTerminal \/ Prime
    \/ LoopTop \/ SerialWrite \/ ReadLine \/ Sleep \/ Sense \/ PrintRow
    \/ FileHeader \/ FileLabel \/ FileRow \/ Incr

\* a single thread of control: a script that can step does step
FairSpec == Spec /\ WF_vars(Program)

\* ------------------------------------------------------------- helpers
Count(out, tag) == Cardinality({ k \in 1..Len(out) : out[k] = tag })
DataRows(out) == Count(out, "D")
Ended == pc = "exited"
Serial == port_monitor
FileOut == handles[f].out

\* a sink that holds the header block, then the label row, then data rows
\* only, or a prefix of that
HeaderFirst(out) ==
    \A k \in 1..Len(out) :
        out[k] = IF k = 1 THEN "H" ELSE IF k = 2 THEN "L" ELSE "D"

\* ============================================================== claims

C2_LowIntervalFails ==
    (pc = "exited" /\ Count(term, "interval too low") > 0)
        => (exitCode # 0 /\ sensorReads = 0 /\ DataRows(term) = 0)

\* C3 (as claimed): when the loop is ended by an interrupt and a file is
\* being saved, every data row on the terminal is in the file too.
C3_NoTornIteration ==
    (Ended /\ how = "interrupt" /\ f_save)
        => DataRows(FileOut) = DataRows(term)

\* C4: skipping an undecodable line leaves the sample counter, the number
\* of sensor reads and both sinks as they were, does not end the loop,
\* and goes back to the top of the loop, whose count test then fails.
C4_SkipKeepsState ==
    [][skips' = skips + 1 =>
          /\ pc = "readline" /\ pc' = "top"
          /\ n_' = n_ /\ sensorReads' = sensorReads
          /\ term' = term /\ handles' = handles
          /\ how' = "" /\ port_monitor'
          /\ (inf' \/ n_' # n')]_vars

C4_Witness == skips = MaxSkips /\ pc = "incr" /\ f_save /\ n_ = 1

\* C5 (as claimed): with a transmit string set, the writes to the serial
\* port are one per emitted sample, skipped lines or not.
C5_OncePerSample ==
    (Serial /\ port_tx # "" /\ pc = "incr") => txWrites = n_ + 1

\* C5 (amended): with a transmit string set, it is written once before
\* every blocking line read, so once more for every skipped line: the
\* writes are the samples counted plus the lines skipped, and without a
\* transmit string or without a port nothing is written.
C5_OncePerRead ==
    /\ (Serial /\ port_tx # "") =>
          /\ pc = "readline" => txWrites = lineReads + 1
          /\ pc \in LoopPcs \ {"readline"} => txWrites = lineReads
          /\ pc = "top" => txWrites = n_ + skips
          /\ lineReads <= txWrites /\ txWrites <= lineReads + 1
    /\ ~(Serial /\ port_tx # "") => txWrites = 0

C5_Witness ==
    Serial /\ port_tx # "" /\ pc = "top" /\ skips = 2 /\ n_ = 1 /\ txWrites = 3

\* C6 (as claimed): when the loop has ended, by the count or by an
\* interrupt, the terminal and the file being saved each hold the header
\* block and the label row exactly once.
C6_HeaderExactlyOnce ==
    (Ended /\ how \in {"count", "interrupt"}) =>
        /\ Count(term, "H") = 1 /\ Count(term, "L") = 1
        /\ f_save => Count(FileOut, "H") = 1 /\ Count(FileOut, "L") = 1

\* C6 (amended): a sink never gets the header block or the label row
\* twice, and holds them, in that order, before any data row; the
\* terminal has both before the priming read; the file gets them with
\* its first data row, so has both once the first sample is counted and
\* when the loop ends on the count, whatever lines were skipped.
C6_HeaderBeforeRows ==
    /\ \A h \in 1..Len(handles) : HeaderFirst(handles[h].out)
    /\ pc \in LoopPcs \cup {"prime"} => HeaderFirst(term) /\ Len(term) >= 2
    /\ Count(term, "H") <= 1 /\ Count(term, "L") <= 1
    /\ (f_save /\ (n_ > 0 \/ how = "count")) =>
          /\ Len(FileOut) >= 3
          /\ pc \in LoopPcs => DataRows(FileOut) = n_ + (IF pc = "incr" THEN 1 ELSE 0)
          /\ how = "count" => Len(FileOut) = n + 2

C6_Witness ==
    /\ pc = "exited" /\ how = "count" /\ f_save /\ Serial /\ skips > 0
    /\ FileOut = <<"H", "L", "D", "D", "D", "D">>

\* C7 (as claimed): when the process has exited, every file and serial
\* port it opened has been closed exactly once.
C7_ClosedOnce ==
    pc = "exited" => \A h \in 1..Len(handles) : handles[h].closed = 1

\* C8 (as claimed): plotter returns a string of exactly chars characters
\* for every input.
C8_ExactlyChars ==
    plot.called => (plot.raise = "" /\ Len(plot.str) = plot.chars)

\* C9 (as claimed): for x_min <= x <= x_max the bar has
\* round((x - x_min)/(x_max - x_min) * chars) bar characters.
C9_Rounded ==
    (plot.called /\ plot.x_min <= plot.x /\ plot.x <= plot.x_max
                 /\ plot.x_min < plot.x_max) =>
        LET a == Trunc_round((plot.x - plot.x_min) * plot.chars, plot.x_max - plot.x_min)
        IN  plot.str = Rep("=", a) \o Rep(" ", plot.chars - a)

\* C9 (amended): for x_min <= x <= x_max and x_min < x_max the bar has
\* (x - x_min) * chars / (x_max - x_min) bar characters, the quotient cut
\* to its integer part, then spaces up to chars characters; x = 5,
\* x_max = 10, x_min = 0, chars = 10 gives 5 bar characters and 5 spaces.
C9_Truncated ==
    /\ (plot.called /\ plot.x_min <= plot.x /\ plot.x <= plot.x_max
                    /\ plot.x_min < plot.x_max) =>
          LET a == ((plot.x - plot.x_min) * plot.chars) \div (plot.x_max - plot.x_min)
          IN  /\ plot.raise = ""
              /\ Len(plot.str) = plot.chars
              /\ \A k \in 1..plot.chars : plot.str[k] = IF k <= a THEN "=" ELSE " "
    /\ (plot.called /\ plot.x = 5 /\ plot.x_max = 10 /\ plot.x_min = 0 /\ plot.chars = 10) =>
          plot.str = <<"=", "=", "=", "=", "=", " ", " ", " ", " ", " ">>

C9_Witness ==
    /\ plot.called /\ plot.x = 2 /\ plot.x_max = 3 /\ plot.x_min = 0 /\ plot.chars = 10
    /\ plot.str = <<"=", "=", "=", "=", "=", "=", " ", " ", " ", " ">>

\* C10 (as claimed): whatever the options, no -u option meets a missing
\* sensor handle, and the handle is made exactly once.
C10_SensorOnce ==
    /\ exc # "NameError"
    /\ sensors <= 1
    /\ pc \in LoopPcs => sensors = 1

====
